---- MODULE Spec2Model ----
(***************************************************************************)
(* The streaming gRPC client of RxInferKServe                               *)
(* (examples/infinite_stream_demo/client/streaming_client.py):             *)
(* RxInferStreamingClient.streaming_inference, its per-model state store   *)
(* model_states, and the StreamingDemo loops that call it from several     *)
(* threads until the SIGINT handler clears the running flag.               *)
(*                                                                         *)
(* A call of streaming_inference blocks once, in stub.ModelInfer, so it is *)
(* two steps: streaming_inference_send (while-check of the loop, request   *)
(* build, send) and streaming_inference_recv (reply, output parsing, state *)
(* commit, return or raise).                                               *)
(*                                                                         *)
(* Further parts, each with a specification of its own: the tensor         *)
(* conversions, main's start-up polls, the HTTP client                     *)
(* (python/rxinfer_client.py) next to the gRPC client, the MLServer        *)
(* runtime (python/rxinfer_mlserver.py) with its Julia subprocess, and the *)
(* deques of the Kalman and AR loops.                                      *)
(***************************************************************************)
EXTENDS Integers, Sequences, FiniteSets, TLC

VARIABLES
    model_states,   \* RxInferStreamingClient.model_states: model name -> decoded state
    running,        \* StreamingDemo.running
    pc,             \* per thread: "loop", "awaiting", "returned", "crashed", "stopped",
                    \* "exited" (killed with the process)
    call,           \* per thread: the frame of the streaming_inference call in flight
    outcome,        \* per thread: how its last streaming_inference call ended
    last_parsed,    \* history: model name -> model_state text of the last reply whose
                    \* call returned normally and that carried one
    clock,          \* int(time.time()*1000), counted from the start
    codec,          \* the tensor conversion under way, outside the streams
    pair,           \* the last call made on both client variants, with what each gave
    startup,        \* main: where it is in its start-up checks
    runtime,        \* RxInferRuntime: julia_process and the subprocesses it started
    buffers         \* StreamingDemo: the deques of the Kalman and AR loops

vars == <<model_states, running, pc, call, outcome, last_parsed, clock, codec,
          pair, startup, runtime, buffers>>

\* Number of threads that call streaming_inference on the shared client.
NumSessions == 2

Sessions == 1..NumSessions

\* Model names the demo streams to (main's `models`, first two).
Models == {"streaming_kalman", "online_ar_learning"}

\* The empty dict.
EmptyDict == [k \in {} |-> 0]

\* dict[key] = value
DictPut(d, key, value) ==
    [k \in DOMAIN d \cup {key} |-> IF k = key THEN value ELSE d[k]]

-----------------------------------------------------------------------------
(* json.loads / json.dumps on the state blob.  A decoded state is a list of *)
(* integers; dumps writes Python's default separators (", ").              *)

\* Texts json.loads accepts, with the value of each.  "[3,4]" is valid JSON
\* that json.dumps does not write: it writes "[3, 4]".
JsonTable ==
    [t \in {"[1, 2]", "[3,4]", "[3, 4]", "[5, 6]"} |->
        CASE t = "[1, 2]" -> <<1, 2>>
          [] t = "[3,4]"  -> <<3, 4>>
          [] t = "[3, 4]" -> <<3, 4>>
          [] t = "[5, 6]" -> <<5, 6>>]

\* json.loads(text) raises JSONDecodeError (a ValueError) unless IsJson(text).
IsJson(text) == text \in DOMAIN JsonTable

json_loads(text) == JsonTable[text]

RECURSIVE JoinInts(_)
JoinInts(v) ==
    IF Len(v) = 0 THEN ""
    ELSE IF Len(v) = 1 THEN ToString(v[1])
    ELSE ToString(v[1]) \o ", " \o JoinInts(Tail(v))

json_dumps(v) == "[" \o JoinInts(v) \o "]"

-----------------------------------------------------------------------------
(* Request parameters.  A Python value is [type, n, s]: n holds the value   *)
(* of a bool (0/1), an int or a float, s the value of a str.               *)

PyBool(b)  == [type |-> "bool",  n |-> b, s |-> ""]
PyInt(i)   == [type |-> "int",   n |-> i, s |-> ""]
PyFloat(x) == [type |-> "float", n |-> x, s |-> ""]
PyStr(t)   == [type |-> "str",   n |-> 0, s |-> t]

\* isinstance(value, cls); bool is a subclass of int.
isinstance(value, cls) ==
    CASE cls = "bool" -> value.type = "bool"
      [] cls = "int"  -> value.type \in {"int", "bool"}
      [] cls = "str"  -> value.type = "str"

\* An InferParameter: which member of the oneof is set, and its value.
InferParameter(kind, n, s) == [kind |-> kind, n |-> n, s |-> s]

\* The chain with the int test placed first.
EncodeParameterIntFirst(value) ==
    IF isinstance(value, "int") THEN InferParameter("int64_param", value.n, "")
    ELSE IF isinstance(value, "bool") THEN InferParameter("bool_param", value.n, "")
    ELSE IF isinstance(value, "str") THEN InferParameter("string_param", 0, value.s)
    ELSE InferParameter("unset", 0, "")

\* The if/elif chain that fills one InferParameter; a value that matches no
\* branch leaves the parameter with no member set.
EncodeParameter(value) ==
    IF isinstance(value, "bool") THEN InferParameter("bool_param", value.n, "")
    ELSE IF isinstance(value, "int") THEN InferParameter("int64_param", value.n, "")
    ELSE IF isinstance(value, "str") THEN InferParameter("string_param", 0, value.s)
    ELSE InferParameter("unset", 0, "")

\* Reading .string_param of a parameter: "" unless that member is set.
string_param(param) == IF param.kind = "string_param" THEN param.s ELSE ""

\* request.parameters after "Add parameters if provided" and "Add model state
\* if exists": the stored state is written last, under the key model_state.
RequestParameters(store, model_name, parameters) ==
    LET given == IF DOMAIN parameters # {}
                 THEN [k \in DOMAIN parameters |-> EncodeParameter(parameters[k])]
                 ELSE EmptyDict
    IN  IF model_name \in DOMAIN store
        THEN DictPut(given, "model_state",
                     InferParameter("string_param", 0, json_dumps(store[model_name])))
        ELSE given

-----------------------------------------------------------------------------
(* Tensors.  An ndarray is [shape, values] with values flat, row-major; a   *)
(* float is an integer count of some fixed binary unit.                    *)

RECURSIVE Product(_)
Product(shape) == IF Len(shape) = 0 THEN 1 ELSE Head(shape) * Product(Tail(shape))

\* Significand width of float32.
Float32Bits == 24

RECURSIVE Pow2(_)
Pow2(n) == IF n = 0 THEN 1 ELSE 2 * Pow2(n - 1)

\* Round a non-negative integer to q's multiples, ties to even.
RoundToMultiple(x, q) ==
    LET lo == (x \div q) * q
        r  == x - lo
    IN  IF 2 * r < q THEN lo
        ELSE IF 2 * r > q THEN lo + q
        ELSE IF (lo \div q) % 2 = 0 THEN lo ELSE lo + q

RECURSIVE Float32Step(_, _)
Float32Step(x, q) ==
    IF x < q * Pow2(Float32Bits) THEN RoundToMultiple(x, q) ELSE Float32Step(x, 2 * q)

\* astype(np.float32) of one value: round to 24 significant bits.
astype_float32(x) == IF x < 0 THEN 0 - Float32Step(0 - x, 1) ELSE Float32Step(x, 1)

\* create_tensor(name, data, datatype): the InferInputTensor, or ValueError.
create_tensor(name, data, datatype) ==
    LET flat_data == data.values
        tensor == [name |-> name, datatype |-> datatype, shape |-> data.shape,
                   fp64_contents |-> <<>>, fp32_contents |-> <<>>,
                   int64_contents |-> <<>>]
    IN  IF datatype = "FP64"
        THEN [ok |-> TRUE, tensor |-> [tensor EXCEPT !.fp64_contents = flat_data]]
        ELSE IF datatype = "FP32"
        THEN [ok |-> TRUE,
              tensor |-> [tensor EXCEPT !.fp32_contents =
                            [i \in 1..Len(flat_data) |-> astype_float32(flat_data[i])]]]
        ELSE [ok |-> FALSE, tensor |-> tensor]

\* Number of -1 entries of a shape.
RECURSIVE CountUnknown(_)
CountUnknown(shape) ==
    IF Len(shape) = 0 THEN 0
    ELSE (IF Head(shape) = -1 THEN 1 ELSE 0) + CountUnknown(Tail(shape))

\* Product of the entries of a shape other than -1.
RECURSIVE KnownProduct(_)
KnownProduct(shape) ==
    IF Len(shape) = 0 THEN 1
    ELSE (IF Head(shape) = -1 THEN 1 ELSE Head(shape)) * KnownProduct(Tail(shape))

\* Whether ndarray.reshape(shape) of `size` values succeeds: numpy takes one
\* -1 as the dimension to infer, and raises ValueError otherwise when the
\* product of the shape is not the size.
CanReshape(size, shape) ==
    /\ \A i \in 1..Len(shape) : shape[i] >= -1
    /\ CountUnknown(shape) <= 1
    /\ IF CountUnknown(shape) = 0 THEN Product(shape) = size
       ELSE /\ KnownProduct(shape) # 0
            /\ size % KnownProduct(shape) = 0

\* The shape of the reshaped array.
Reshaped(size, shape) ==
    [i \in 1..Len(shape) |->
        IF shape[i] = -1 THEN size \div KnownProduct(shape) ELSE shape[i]]

\* "Parse outputs": the loop over response.outputs, from `results` on.  An
\* output that is neither FP64 nor FP32 is passed over (continue); reshape
\* raises ValueError, which ends the loop and the call.
RECURSIVE ParseOutputs(_, _)
ParseOutputs(outputs, results) ==
    IF Len(outputs) = 0 THEN [ok |-> TRUE, results |-> results]
    ELSE LET output == Head(outputs) IN
         IF output.datatype \in {"FP64", "FP32"}
         THEN LET data == IF output.datatype = "FP64" THEN output.fp64_contents
                          ELSE output.fp32_contents
              IN  IF CanReshape(Len(data), output.shape)
                  THEN ParseOutputs(Tail(outputs),
                          DictPut(results, output.name,
                                  [shape |-> Reshaped(Len(data), output.shape),
                                   values |-> data]))
                  ELSE [ok |-> FALSE, results |-> results]
         ELSE ParseOutputs(Tail(outputs), results)

-----------------------------------------------------------------------------
(* A reply of stub.ModelInfer: grpc.RpcError, or a ModelInferResponse with  *)
(* outputs and parameters.                                                 *)

Reply(rpc_error, outputs, parameters) ==
    [rpc_error |-> rpc_error, outputs |-> outputs, parameters |-> parameters]

\* A variant that stores the state before the outputs are parsed.
StoreBeforeParse(store, model_name, reply) ==
    IF reply.rpc_error THEN store
    ELSE IF "model_state" \in DOMAIN reply.parameters
            /\ IsJson(string_param(reply.parameters["model_state"]))
    THEN DictPut(store, model_name,
                 json_loads(string_param(reply.parameters["model_state"])))
    ELSE store

\* A variant that drops a model's entry when its call ends in RpcError.
StoreEvictOnError(store, model_name, reply) ==
    IF reply.rpc_error
    THEN [m \in DOMAIN store \ {model_name} |-> store[m]]
    ELSE IF ~ParseOutputs(reply.outputs, EmptyDict).ok THEN store
    ELSE IF "model_state" \in DOMAIN reply.parameters
            /\ IsJson(string_param(reply.parameters["model_state"]))
    THEN DictPut(store, model_name,
                 json_loads(string_param(reply.parameters["model_state"])))
    ELSE store

\* A variant that clears a model's entry on a response without model_state.
StoreClearWithoutState(store, model_name, reply) ==
    IF reply.rpc_error THEN store
    ELSE IF ~ParseOutputs(reply.outputs, EmptyDict).ok THEN store
    ELSE IF "model_state" \in DOMAIN reply.parameters
    THEN IF IsJson(string_param(reply.parameters["model_state"]))
         THEN DictPut(store, model_name,
                      json_loads(string_param(reply.parameters["model_state"])))
         ELSE store
    ELSE [m \in DOMAIN store \ {model_name} |-> store[m]]

\* A variant that keeps one state for all models.
StoreUnderEveryModel(store, model_name, reply) ==
    IF reply.rpc_error THEN store
    ELSE IF ~ParseOutputs(reply.outputs, EmptyDict).ok THEN store
    ELSE IF "model_state" \in DOMAIN reply.parameters
            /\ IsJson(string_param(reply.parameters["model_state"]))
    THEN [m \in DOMAIN store \cup {model_name} |->
             json_loads(string_param(reply.parameters["model_state"]))]
    ELSE store

\* model_states after the try block has handled `reply`: the state is
\* written after the outputs are parsed and json.loads has returned, so
\* only on the path that reaches `return results`.
StoreAfterReply(store, model_name, reply) ==
    IF reply.rpc_error THEN store
    ELSE IF ~ParseOutputs(reply.outputs, EmptyDict).ok THEN store
    ELSE IF "model_state" \in DOMAIN reply.parameters
            /\ IsJson(string_param(reply.parameters["model_state"]))
    THEN DictPut(store, model_name,
                 json_loads(string_param(reply.parameters["model_state"])))
    ELSE store

\* How the call ends: `return {}` in the except branch, ValueError out of
\* reshape or json.loads (not caught by `except grpc.RpcError`), or
\* `return results`.
CallOutcome(model_name, reply) ==
    LET parsed == ParseOutputs(reply.outputs, EmptyDict)
        base == [kind |-> "return", results |-> EmptyDict, error |-> "",
                 model_name |-> model_name, reply |-> reply]
    IN  IF reply.rpc_error THEN base
        ELSE IF ~parsed.ok THEN [base EXCEPT !.kind = "raise", !.error = "ValueError"]
        ELSE IF "model_state" \in DOMAIN reply.parameters
                /\ ~IsJson(string_param(reply.parameters["model_state"]))
        THEN [base EXCEPT !.kind = "raise", !.error = "JSONDecodeError"]
        ELSE [base EXCEPT !.results = parsed.results]

\* Whether the call reaches `self.model_states[model_name] = ...`.
Commits(model_name, reply) ==
    /\ CallOutcome(model_name, reply).kind = "return"
    /\ ~reply.rpc_error
    /\ "model_state" \in DOMAIN reply.parameters

NoReply == Reply(FALSE, <<>>, EmptyDict)

NoOutcome == [kind |-> "none", results |-> EmptyDict, error |-> "",
              model_name |-> "", reply |-> NoReply]

-----------------------------------------------------------------------------
(* Inputs.                                                                  *)

\* A generated batch (ndarray of floats), as the loops pass under "y".
DataBatches == {[shape |-> <<2>>, values |-> <<1, 2>>]}

\* The parameters each loop passes: {"Δt": 1.0} and {"window_size": 20}.
KalmanParameters == [k \in {"dt"} |-> PyFloat(1)]
ArParameters     == [k \in {"window_size"} |-> PyInt(20)]

DemoParameters(model_name) ==
    IF model_name = "streaming_kalman" THEN KalmanParameters ELSE ArParameters

\* Parameter mappings a caller of streaming_inference may pass.
AllParameters ==
    { EmptyDict, KalmanParameters, ArParameters,
      [k \in {"model_state"} |-> PyStr("[5, 6]")],
      [k \in {"flag"} |-> PyBool(1)],
      [k \in {"count", "flag", "label"} |->
          CASE k = "count" -> PyInt(1)
            [] k = "flag"  -> PyBool(0)
            [] k = "label" -> PyStr("a")] }

Tensor(name, datatype, shape, fp64, fp32, int64) ==
    [name |-> name, datatype |-> datatype, shape |-> shape,
     fp64_contents |-> fp64, fp32_contents |-> fp32, int64_contents |-> int64]

XGood  == Tensor("x", "FP64", <<2, 1>>, <<7, 8>>, <<>>, <<>>)
XShort == Tensor("x", "FP64", <<2, 3>>, <<1, 2, 3, 4, 5>>, <<>>, <<>>)
XInfer == Tensor("x", "FP64", <<-1>>, <<7, 8>>, <<>>, <<>>)
WGood  == Tensor("w", "FP32", <<>>, <<>>, <<9>>, <<>>)
ZInt   == Tensor("z", "INT64", <<2>>, <<>>, <<>>, <<1, 2>>)
ZShort == Tensor("z", "INT64", <<2, 3>>, <<>>, <<>>, <<1, 2, 3, 4, 5>>)
ZOther == Tensor("z", "UINT8", <<0, 3>>, <<>>, <<>>, <<>>)

\* model_state parameters of a reply: none, or a string parameter.
StateParameter(text) == [k \in {"model_state"} |-> InferParameter("string_param", 0, text)]

\* Replies to the demo's threads.
DemoReplies ==
    {Reply(TRUE, <<>>, EmptyDict)} \cup
    { Reply(FALSE, o, p) :
        o \in {<<XGood>>, <<XShort>>},
        p \in {EmptyDict, StateParameter("[1, 2]"), StateParameter("[3,4]"),
               StateParameter("oops")} }

\* Replies a server may give.
AllReplies ==
    {Reply(TRUE, <<>>, EmptyDict)} \cup
    { Reply(FALSE, o, p) :
        o \in {<<>>, <<XGood>>, <<XShort>>, <<XInfer>>, <<WGood, XShort>>,
               <<XGood, ZInt>>, <<ZShort>>, <<ZOther>>},
        p \in {EmptyDict, StateParameter("[1, 2]"), StateParameter("[3,4]"),
               StateParameter("oops"),
               [k \in {"model_state"} |-> InferParameter("int64_param", 7, "")]} }

-----------------------------------------------------------------------------
(* Actions.                                                                 *)

NoCall == <<>>

\* No tensor conversion under way.
NoCodec == [stage |-> "idle"]

\* No call made on the two client variants yet.
NoPair == [op |-> "none"]

\* The models main checks before it starts the streams.
StartupModels == <<"streaming_kalman", "online_ar_learning", "adaptive_mixture">>

\* main past its start-up checks, the stream threads started.  `live` and
\* `ready` are history: whether the server answered live, and the models
\* that answered ready.
Started == [phase |-> "streaming", i |-> 0, model |-> 1, all_ready |-> TRUE,
            waiting |-> FALSE, live |-> TRUE,
            ready |-> {StartupModels[k] : k \in 1..Len(StartupModels)}]

\* RxInferRuntime.__init__: no subprocess handle.
NotLoaded == [julia_process |-> <<>>, alive |-> {}, started |-> 0, returned |-> "none"]

\* StreamingDemo.__init__: the deques are empty.
\* `y` is the window the AR loop sent last; `iterations` and `misses` count
\* the passes of the loops and those that gave no estimates.
EmptyBuffers == [kalman_data |-> <<>>, kalman_estimates |-> <<>>,
                 ar_data |-> <<>>, ar_params |-> <<>>, y |-> <<>>,
                 iterations |-> 0, misses |-> 0]

Init ==
    /\ pair = NoPair
    /\ startup = Started
    /\ runtime = NotLoaded
    /\ buffers = EmptyBuffers
    /\ model_states = EmptyDict
    /\ running = TRUE
    /\ pc = [s \in Sessions |-> "loop"]
    /\ call = [s \in Sessions |-> NoCall]
    /\ outcome = [s \in Sessions |-> NoOutcome]
    /\ last_parsed = EmptyDict
    /\ clock = 0
    /\ codec = NoCodec

\* The condition of `while self.running:` with the flag ignored.
LoopConditionIgnored == TRUE

\* The condition of `while self.running:`.
LoopCondition == running

\* The request id: f"{model_name}_{int(time.time()*1000)}".
RequestId(model_name, now) == <<model_name, now>>

\* One pass of `while self.running:` up to stub.ModelInfer(request): the
\* request is built from the store as it is now and handed to the channel.
\* `basis` and `fresh` are history: the text the stored state was decoded
\* from, and whether the store still holds the snapshot the request was
\* built from.
streaming_inference_send(s, model_name, data, parameters) ==
    /\ pc[s] = "loop"
    /\ LoopCondition
    /\ create_tensor("y", data, "FP64").ok
    /\ call' = [call EXCEPT ![s] =
          << [via |-> "grpc",
              model_name |-> model_name,
              parameters |-> parameters,
              request |-> [model_name |-> model_name,
                           id |-> RequestId(model_name, clock),
                           inputs |-> <<create_tensor("y", data, "FP64").tensor>>,
                           parameters |-> RequestParameters(model_states, model_name,
                                                            parameters)],
              basis |-> IF model_name \in DOMAIN last_parsed
                        THEN <<last_parsed[model_name]>> ELSE <<>>,
              fresh |-> TRUE] >>]
    /\ pc' = [pc EXCEPT ![s] = "awaiting"]
    /\ outcome' = [outcome EXCEPT ![s] = NoOutcome]
    /\ UNCHANGED <<model_states, running, last_parsed, clock, codec>>
    /\ UNCHANGED <<pair, startup, runtime, buffers>>

\* A variant that sends the request again when the transport failed.
AfterReplyRetry(result) ==
    IF result.reply.rpc_error THEN "awaiting"
    ELSE IF result.kind = "raise" THEN "crashed" ELSE "returned"

\* Where the caller is once the call has ended: an exception leaves the
\* thread's target function, a return goes on with the loop body.
AfterReply(result) == IF result.kind = "raise" THEN "crashed" ELSE "returned"

\* stub.ModelInfer returns or raises, and the rest of streaming_inference
\* runs: parse, commit, return or raise.  An exception leaves the thread's
\* target function, which ends the thread.
streaming_inference_recv(s, reply) ==
    /\ pc[s] = "awaiting"
    /\ call[s][1].via = "grpc"
    /\ LET model_name == call[s][1].model_name
           result == CallOutcome(model_name, reply)
           store == StoreAfterReply(model_states, model_name, reply)
       IN  /\ model_states' = store
           /\ outcome' = [outcome EXCEPT ![s] = result]
           /\ pc' = [pc EXCEPT ![s] = AfterReply(result)]
           /\ last_parsed' =
                IF /\ result.kind = "return"
                   /\ ~reply.rpc_error
                   /\ "model_state" \in DOMAIN reply.parameters
                THEN DictPut(last_parsed, model_name,
                             string_param(reply.parameters["model_state"]))
                ELSE last_parsed
           /\ call' = [t \in Sessions |->
                IF t = s THEN NoCall
                ELSE IF /\ Len(call[t]) = 1
                        /\ call[t][1].model_name = model_name
                        /\ Commits(model_name, reply)
                THEN <<[call[t][1] EXCEPT !.fresh = FALSE]>>
                ELSE call[t]]
    /\ UNCHANGED <<running, clock, codec>>
    /\ UNCHANGED <<pair, startup, runtime, buffers>>

\* A variant in which a loop that has returned starts again.
loop_continue_or_restart(s) ==
    /\ pc[s] \in {"returned", "stopped"}
    /\ pc' = [pc EXCEPT ![s] = "loop"]
    /\ outcome' = [outcome EXCEPT ![s] = NoOutcome]
    /\ UNCHANGED <<model_states, running, call, last_parsed, clock, codec>>
    /\ UNCHANGED <<pair, startup, runtime, buffers>>

\* The rest of the loop body: use the results, time.sleep(interval).
loop_continue(s) ==
    /\ pc[s] = "returned"
    /\ pc' = [pc EXCEPT ![s] = "loop"]
    /\ outcome' = [outcome EXCEPT ![s] = NoOutcome]
    /\ UNCHANGED <<model_states, running, call, last_parsed, clock, codec>>
    /\ UNCHANGED <<pair, startup, runtime, buffers>>

\* `while self.running:` finds the flag cleared: the loop function returns.
loop_exit(s) ==
    /\ pc[s] = "loop"
    /\ ~LoopCondition
    /\ pc' = [pc EXCEPT ![s] = "stopped"]
    /\ UNCHANGED <<model_states, running, call, outcome, last_parsed, clock, codec>>
    /\ UNCHANGED <<pair, startup, runtime, buffers>>

\* StreamingDemo._signal_handler.
signal_handler ==
    /\ startup.phase = "streaming"
    /\ running
    /\ running' = FALSE
    /\ UNCHANGED <<model_states, pc, call, outcome, last_parsed, clock, codec>>
    /\ UNCHANGED <<pair, startup, runtime, buffers>>

\* main after `while demo.running:` has ended: it prints the statistics and
\* returns, and the interpreter exits.  The stream threads are daemon
\* threads: those still running end there, wherever they are.
main_exit ==
    /\ startup.phase = "streaming"
    /\ ~running
    /\ \E s \in Sessions : pc[s] \notin {"stopped", "crashed", "exited"}
    /\ pc' = [s \in Sessions |->
                IF pc[s] \in {"stopped", "crashed"} THEN pc[s] ELSE "exited"]
    /\ call' = [s \in Sessions |-> NoCall]
    /\ UNCHANGED <<model_states, running, outcome, last_parsed, clock, codec>>
    /\ UNCHANGED <<pair, startup, runtime, buffers>>

\* The demo: every thread runs stream-loop iterations with that loop's
\* parameters.  Which loop an iteration belongs to is an input, so two
\* threads may stream to the same model as well as to different ones.
Next ==
    \/ \E s \in Sessions, m \in Models, d \in DataBatches :
          streaming_inference_send(s, m, d, DemoParameters(m))
    \/ \E s \in Sessions, r \in DemoReplies : streaming_inference_recv(s, r)
    \/ \E s \in Sessions : loop_continue(s)
    \/ \E s \in Sessions : loop_exit(s)
    \/ signal_handler
    \/ main_exit

Spec == Init /\ [][Next]_vars

\* The demo with its threads scheduled: a loop that can go on does, and main
\* leaves its wait loop once the flag is cleared.  Nothing makes the server
\* answer, and nothing makes the user press Ctrl+C.
SpecFair ==
    /\ Spec
    /\ WF_vars(main_exit)
    /\ \A s \in Sessions : WF_vars(loop_continue(s)) /\ WF_vars(loop_exit(s))

MaxClock == 2

\* A millisecond passes: int(time.time() * 1000) grows by one.
tick ==
    /\ clock < MaxClock
    /\ clock' = clock + 1
    /\ UNCHANGED <<model_states, running, pc, call, outcome, last_parsed, codec>>
    /\ UNCHANGED <<pair, startup, runtime, buffers>>

\* The demo with time passing between the steps of its threads.
NextClock ==
    \/ \E s \in Sessions, m \in Models, d \in DataBatches :
          streaming_inference_send(s, m, d, DemoParameters(m))
    \/ \E s \in Sessions, r \in DemoReplies : streaming_inference_recv(s, r)
    \/ \E s \in Sessions : loop_continue(s)
    \/ \E s \in Sessions : loop_exit(s)
    \/ signal_handler
    \/ main_exit
    \/ tick

SpecClock == Init /\ [][NextClock]_vars

\* One caller of the client, any parameters, any reply.
NextCall ==
    \/ \E m \in Models, d \in DataBatches, p \in AllParameters :
          streaming_inference_send(1, m, d, p)
    \/ \E r \in AllReplies : streaming_inference_recv(1, r)
    \/ loop_continue(1)
    \/ loop_exit(1)
    \/ signal_handler
    \/ main_exit

SpecCall == Init /\ [][NextCall]_vars

-----------------------------------------------------------------------------
(* Tensor conversion on its own: create_tensor and the output parsing of    *)
(* streaming_inference, infer_simple of the HTTP client and _format_outputs *)
(* of the MLServer runtime, applied to tensors and values of every kind.    *)

MaxRank == 3
MaxDim == 2

\* Shapes of rank 0..MaxRank with dimensions 0..MaxDim.
Shapes == UNION { [1..r -> 0..MaxDim] : r \in 0..MaxRank }

\* The ndarray of a given shape holding 1, 2, ... in row-major order.
ArrayOf(shape) == [shape |-> shape, values |-> [i \in 1..Product(shape) |-> i]]

Datatypes == {"FP32", "FP64", "INT64", "BOOL", "BYTES"}

\* Python values passed to infer_simple and found in RxInfer results: a
\* (nested, rectangular) list given by its shape and its scalars in
\* row-major order, a number, or anything else (dict, str, None).
PyList(shape)  == [type |-> "list", shape |-> shape,
                   values |-> [i \in 1..Product(shape) |-> i], has_type |-> FALSE]
PyNumber(x)    == [type |-> "float", shape |-> <<>>, values |-> <<x>>, has_type |-> FALSE]
PyDict(has_type) == [type |-> "dict", shape |-> <<>>, values |-> <<>>,
                     has_type |-> has_type]
PyNone         == [type |-> "NoneType", shape |-> <<>>, values |-> <<>>,
                   has_type |-> FALSE]

PyValues ==
    { PyList(shape) : shape \in {sh \in Shapes : Len(sh) \in 1..2} }
        \cup {PyNumber(3), PyDict(TRUE), PyDict(FALSE), PyNone}

\* A tensor of the JSON protocols: `data` holds the scalars of the JSON
\* list in order (for a nested list, its leaves).
JsonTensor(name, datatype, shape, data) ==
    [name |-> name, datatype |-> datatype, shape |-> shape, data |-> data]

\* The input infer_simple builds for one item of `data`.
infer_simple(name, value) ==
    IF value.type = "list"
    THEN JsonTensor(name, "FP64", <<Head(value.shape)>>, value.values)
    ELSE IF value.type \in {"int", "float", "bool"}
    THEN JsonTensor(name, "FP64", <<1>>, value.values)
    ELSE JsonTensor(name, "BYTES", <<1>>, <<"json">>)

\* The output _format_outputs builds for one item of `results`.
format_outputs(key, value) ==
    IF value.type = "dict" /\ value.has_type
    THEN JsonTensor(key, "BYTES", <<1>>, <<"json">>)
    ELSE IF value.type \in {"int", "float", "bool"}
    THEN JsonTensor(key, "FP64", <<1>>, value.values)
    ELSE IF value.type = "list"
    THEN JsonTensor(key, "FP64", value.shape, value.values)
    ELSE JsonTensor(key, "BYTES", <<1>>, <<"json">>)

\* create_tensor(name, data, datatype) is called.
codec_encode(name, data, datatype) ==
    /\ codec.stage = "idle"
    /\ codec' = [stage |-> "encoded", name |-> name, datatype |-> datatype,
                 data |-> data, encoded |-> create_tensor(name, data, datatype)]
    /\ UNCHANGED <<model_states, running, pc, call, outcome, last_parsed, clock>>
    /\ UNCHANGED <<pair, startup, runtime, buffers>>

\* The tensor comes back as the only output of a response and is parsed.
codec_decode ==
    /\ codec.stage = "encoded"
    /\ codec.encoded.ok
    /\ codec' = [stage |-> "decoded", name |-> codec.name,
                 datatype |-> codec.datatype, data |-> codec.data,
                 decoded |-> ParseOutputs(<<codec.encoded.tensor>>, EmptyDict)]
    /\ UNCHANGED <<model_states, running, pc, call, outcome, last_parsed, clock>>
    /\ UNCHANGED <<pair, startup, runtime, buffers>>

\* RxInferClient.infer_simple converts one item of its data dict.
codec_infer_simple(name, value) ==
    /\ codec.stage = "idle"
    /\ codec' = [stage |-> "built", by |-> "infer_simple", value |-> value,
                 tensor |-> infer_simple(name, value)]
    /\ UNCHANGED <<model_states, running, pc, call, outcome, last_parsed, clock>>
    /\ UNCHANGED <<pair, startup, runtime, buffers>>

\* RxInferRuntime._format_outputs converts one item of the results.
codec_format_outputs(key, value) ==
    /\ codec.stage = "idle"
    /\ codec' = [stage |-> "built", by |-> "_format_outputs", value |-> value,
                 tensor |-> format_outputs(key, value)]
    /\ UNCHANGED <<model_states, running, pc, call, outcome, last_parsed, clock>>
    /\ UNCHANGED <<pair, startup, runtime, buffers>>

\* The conversion is over.
codec_reset ==
    /\ codec.stage # "idle"
    /\ codec' = NoCodec
    /\ UNCHANGED <<model_states, running, pc, call, outcome, last_parsed, clock>>
    /\ UNCHANGED <<pair, startup, runtime, buffers>>

NextCodec ==
    \/ \E shape \in Shapes, datatype \in Datatypes :
          codec_encode("y", ArrayOf(shape), datatype)
    \/ codec_decode
    \/ \E value \in PyValues : codec_infer_simple("y", value)
    \/ \E value \in PyValues : codec_format_outputs("posteriors", value)
    \/ codec_reset

SpecCodec == Init /\ [][NextCodec]_vars

-----------------------------------------------------------------------------
(* The HTTP client (src/python/rxinfer_client.py) next to the gRPC client.  *)

\* What a call gives its caller: a value or an exception, the names of the
\* outputs it hands over, and whether its request carried a model_state.
Observed(kind, value, outputs, sent_state) ==
    [kind |-> kind, value |-> value, outputs |-> outputs, sent_state |-> sent_state]

\* How the server behaves towards a health request.
HealthAnswers == {"yes", "no", "unreachable"}

\* RxInferStreamingClient.check_server_live / check_model_ready: RpcError
\* becomes the value False.
check_server_live(answer) ==
    Observed("return", IF answer = "yes" THEN "True" ELSE "False", {}, FALSE)

check_model_ready(model_name, answer) ==
    Observed("return", IF answer = "yes" THEN "True" ELSE "False", {}, FALSE)

\* RxInferClient.server_live / model_ready: session.get raises when the
\* server cannot be reached (raise_for_status raises on an error status).
server_live(answer) ==
    IF answer = "unreachable" THEN Observed("raise", "RequestException", {}, FALSE)
    ELSE Observed("return", IF answer = "yes" THEN "True" ELSE "False", {}, FALSE)

model_ready(model_name, answer) ==
    IF answer = "unreachable" THEN Observed("raise", "RequestException", {}, FALSE)
    ELSE Observed("return", IF answer = "yes" THEN "True" ELSE "False", {}, FALSE)

\* The InferenceRequest of RxInferClient.infer: the caller's parameters as
\* they are; the client keeps nothing between calls.
InferenceRequest(model_name, now, inputs, parameters) ==
    [model_name |-> model_name, id |-> <<"uuid4", now>>, inputs |-> inputs,
     parameters |-> parameters]

\* How RxInferClient.infer ends: session.post or raise_for_status raises, or
\* the response is returned with its outputs as they came.
InferOutcome(model_name, reply) ==
    LET base == [kind |-> "return", results |-> EmptyDict, error |-> "",
                 model_name |-> model_name, reply |-> reply]
    IN  IF reply.rpc_error
        THEN [base EXCEPT !.kind = "raise", !.error = "RequestException"]
        ELSE [base EXCEPT !.results =
                [name \in {reply.outputs[i].name : i \in 1..Len(reply.outputs)} |->
                    "output"]]

\* last_parsed after a reply to a streaming_inference call.
LastParsedAfterReply(parsed, model_name, reply) ==
    IF Commits(model_name, reply)
    THEN DictPut(parsed, model_name, string_param(reply.parameters["model_state"]))
    ELSE parsed

\* The same health check on both clients, against the same server.
both_server_live(answer) ==
    /\ pair' = [op |-> "server_live", rpc |-> check_server_live(answer),
                http |-> server_live(answer)]
    /\ UNCHANGED <<model_states, running, pc, call, outcome, last_parsed, clock, codec>>
    /\ UNCHANGED <<startup, runtime, buffers>>

both_model_ready(model_name, answer) ==
    /\ pair' = [op |-> "model_ready", rpc |-> check_model_ready(model_name, answer),
                http |-> model_ready(model_name, answer)]
    /\ UNCHANGED <<model_states, running, pc, call, outcome, last_parsed, clock, codec>>
    /\ UNCHANGED <<startup, runtime, buffers>>

\* The same inference call on both clients, answered the same way: the gRPC
\* client builds its request from its store and commits to it, the HTTP
\* client sends what the caller gave.
both_infer(model_name, data, parameters, reply) ==
    /\ create_tensor("y", data, "FP64").ok
    /\ LET sent == RequestParameters(model_states, model_name, parameters)
           posted == InferenceRequest(model_name, clock, <<data>>, parameters)
           rpc == CallOutcome(model_name, reply)
           http == InferOutcome(model_name, reply)
       IN  /\ pair' = [op |-> "infer",
                       rpc |-> Observed(rpc.kind, rpc.error, DOMAIN rpc.results,
                                        "model_state" \in DOMAIN sent),
                       http |-> Observed(http.kind, http.error, DOMAIN http.results,
                                         "model_state" \in DOMAIN posted.parameters)]
           /\ model_states' = StoreAfterReply(model_states, model_name, reply)
           /\ last_parsed' = LastParsedAfterReply(last_parsed, model_name, reply)
    /\ UNCHANGED <<running, pc, call, outcome, clock, codec>>
    /\ UNCHANGED <<startup, runtime, buffers>>

NextVariants ==
    \/ \E answer \in HealthAnswers : both_server_live(answer)
    \/ \E m \in Models, answer \in HealthAnswers : both_model_ready(m, answer)
    \/ \E m \in Models, d \in DataBatches, r \in AllReplies :
          both_infer(m, d, EmptyDict, r)

SpecVariants == Init /\ [][NextVariants]_vars

\* RxInferClient.infer up to session.post: the request is built and posted.
infer_send(s, model_name, data, parameters) ==
    /\ pc[s] = "loop"
    /\ LoopCondition
    /\ call' = [call EXCEPT ![s] =
          << [via |-> "http",
              model_name |-> model_name,
              parameters |-> parameters,
              request |-> InferenceRequest(model_name, clock, <<data>>, parameters),
              basis |-> <<>>,
              fresh |-> TRUE] >>]
    /\ pc' = [pc EXCEPT ![s] = "awaiting"]
    /\ outcome' = [outcome EXCEPT ![s] = NoOutcome]
    /\ UNCHANGED <<model_states, running, last_parsed, clock, codec>>
    /\ UNCHANGED <<pair, startup, runtime, buffers>>

\* session.post returns or raises, and infer returns the response or lets
\* the exception out.
infer_recv(s, reply) ==
    /\ pc[s] = "awaiting"
    /\ call[s][1].via = "http"
    /\ outcome' = [outcome EXCEPT ![s] = InferOutcome(call[s][1].model_name, reply)]
    /\ pc' = [pc EXCEPT ![s] = AfterReply(InferOutcome(call[s][1].model_name, reply))]
    /\ call' = [call EXCEPT ![s] = NoCall]
    /\ UNCHANGED <<model_states, running, last_parsed, clock, codec>>
    /\ UNCHANGED <<pair, startup, runtime, buffers>>

\* One caller that uses either client, any reply.
NextHttp ==
    \/ \E m \in Models, d \in DataBatches, p \in AllParameters :
          streaming_inference_send(1, m, d, p)
    \/ \E r \in AllReplies : streaming_inference_recv(1, r)
    \/ \E m \in Models, d \in DataBatches : infer_send(1, m, d, EmptyDict)
    \/ \E r \in AllReplies : infer_recv(1, r)
    \/ loop_continue(1)
    \/ loop_exit(1)
    \/ signal_handler
    \/ main_exit

SpecHttp == Init /\ [][NextHttp]_vars

-----------------------------------------------------------------------------
(* main from its first line: the liveness and readiness polls, then the     *)
(* streams.                                                                 *)

max_retries == 30
ready_retries == 10

\* main before its first poll: no thread exists yet.
InitMain ==
    /\ pair = NoPair
    /\ startup = [phase |-> "live", i |-> 0, model |-> 1, all_ready |-> TRUE,
                  waiting |-> FALSE, live |-> FALSE, ready |-> {}]
    /\ runtime = NotLoaded
    /\ buffers = EmptyBuffers
    /\ model_states = EmptyDict
    /\ running = TRUE
    /\ pc = [s \in Sessions |-> "unstarted"]
    /\ call = [s \in Sessions |-> NoCall]
    /\ outcome = [s \in Sessions |-> NoOutcome]
    /\ last_parsed = EmptyDict
    /\ clock = 0
    /\ codec = NoCodec

\* main calls client.check_server_live() or client.check_model_ready(model):
\* the request goes out and main waits in the stub call.
main_poll ==
    /\ startup.phase \in {"live", "ready"}
    /\ ~startup.waiting
    /\ startup' = [startup EXCEPT !.waiting = TRUE]
    /\ UNCHANGED <<model_states, running, pc, call, outcome, last_parsed, clock, codec>>
    /\ UNCHANGED <<pair, runtime, buffers>>

\* The `if not all_ready` after the readiness loops, once the last model
\* has been dealt with.
AfterReadiness(st) ==
    IF st.model <= Len(StartupModels) THEN st
    ELSE IF st.all_ready THEN [st EXCEPT !.phase = "start"]
    ELSE [st EXCEPT !.phase = "failed"]

\* check_server_live returns: on True main goes on to the models, else it
\* sleeps and polls again, and after max_retries polls it exits.
main_live_answer(answer) ==
    /\ startup.phase = "live"
    /\ startup.waiting
    /\ startup' =
          IF check_server_live(answer).value = "True"
          THEN [startup EXCEPT !.phase = "ready", !.i = 0, !.waiting = FALSE,
                               !.live = TRUE]
          ELSE IF startup.i + 1 < max_retries
          THEN [startup EXCEPT !.i = @ + 1, !.waiting = FALSE]
          ELSE [startup EXCEPT !.phase = "failed", !.i = @ + 1, !.waiting = FALSE]
    /\ UNCHANGED <<model_states, running, pc, call, outcome, last_parsed, clock, codec>>
    /\ UNCHANGED <<pair, runtime, buffers>>

\* check_model_ready(model) returns: on True main goes on to the next model,
\* else it sleeps and polls again; after ready_retries polls it notes the
\* failure and goes on to the next model.
main_ready_answer(answer) ==
    /\ startup.phase = "ready"
    /\ startup.waiting
    /\ startup' =
          IF check_model_ready(StartupModels[startup.model], answer).value = "True"
          THEN AfterReadiness([startup EXCEPT !.model = @ + 1, !.i = 0,
                                 !.waiting = FALSE,
                                 !.ready = @ \cup {StartupModels[startup.model]}])
          ELSE IF startup.i + 1 < ready_retries
          THEN [startup EXCEPT !.i = @ + 1, !.waiting = FALSE]
          ELSE AfterReadiness([startup EXCEPT !.model = @ + 1, !.i = 0,
                                 !.waiting = FALSE, !.all_ready = FALSE])
    /\ UNCHANGED <<model_states, running, pc, call, outcome, last_parsed, clock, codec>>
    /\ UNCHANGED <<pair, runtime, buffers>>

\* StreamingDemo(client), then every thread is started.
main_start_threads ==
    /\ startup.phase = "start"
    /\ startup' = [Started EXCEPT !.ready = startup.ready, !.live = startup.live]
    /\ pc' = [s \in Sessions |-> "loop"]
    /\ UNCHANGED <<model_states, running, call, outcome, last_parsed, clock, codec>>
    /\ UNCHANGED <<pair, runtime, buffers>>

NextMain ==
    \/ main_poll
    \/ \E answer \in HealthAnswers : main_live_answer(answer)
    \/ \E answer \in HealthAnswers : main_ready_answer(answer)
    \/ main_start_threads
    \/ \E s \in Sessions, m \in Models, d \in DataBatches :
          streaming_inference_send(s, m, d, DemoParameters(m))
    \/ \E s \in Sessions, r \in DemoReplies : streaming_inference_recv(s, r)
    \/ \E s \in Sessions : loop_continue(s)
    \/ \E s \in Sessions : loop_exit(s)
    \/ signal_handler
    \/ main_exit

\* main and the threads scheduled; nothing makes the server answer.
SpecMain ==
    /\ InitMain /\ [][NextMain]_vars
    /\ WF_vars(main_poll)
    /\ WF_vars(main_start_threads)
    /\ WF_vars(main_exit)
    /\ \A s \in Sessions : WF_vars(loop_continue(s)) /\ WF_vars(loop_exit(s))

-----------------------------------------------------------------------------
(* The MLServer runtime (src/python/rxinfer_mlserver.py): one RxInferRuntime *)
(* instance and the Julia subprocesses it starts.  A subprocess is a number; *)
(* `alive` holds those started by the instance that have not ended.         *)

MaxProcesses == 5

\* RxInferRuntime.load: subprocess.Popen starts a subprocess and its handle
\* is assigned to self.julia_process, or Popen raises and load raises
\* MLServerError.
load(popen_ok) ==
    /\ runtime.started < MaxProcesses
    /\ runtime' =
          IF popen_ok
          THEN [julia_process |-> <<runtime.started + 1>>,
                alive |-> runtime.alive \cup {runtime.started + 1},
                started |-> runtime.started + 1,
                returned |-> "load"]
          ELSE [runtime EXCEPT !.returned = "load_error"]
    /\ UNCHANGED <<model_states, running, pc, call, outcome, last_parsed, clock, codec>>
    /\ UNCHANGED <<pair, startup, buffers>>

\* RxInferRuntime.predict: it answers from its own data and touches no
\* subprocess.
predict ==
    /\ runtime' = [runtime EXCEPT !.returned = "predict"]
    /\ UNCHANGED <<model_states, running, pc, call, outcome, last_parsed, clock, codec>>
    /\ UNCHANGED <<pair, startup, buffers>>

\* RxInferRuntime.unload: terminate() and wait() on the handle, if there is
\* one; the handle is kept.
unload ==
    /\ runtime' =
          IF Len(runtime.julia_process) = 1
          THEN [runtime EXCEPT !.alive = @ \ {runtime.julia_process[1]},
                               !.returned = "unload"]
          ELSE [runtime EXCEPT !.returned = "unload"]
    /\ UNCHANGED <<model_states, running, pc, call, outcome, last_parsed, clock, codec>>
    /\ UNCHANGED <<pair, startup, buffers>>

\* A Julia subprocess ends by itself.
julia_exit(process) ==
    /\ process \in runtime.alive
    /\ runtime' = [runtime EXCEPT !.alive = @ \ {process}, !.returned = "none"]
    /\ UNCHANGED <<model_states, running, pc, call, outcome, last_parsed, clock, codec>>
    /\ UNCHANGED <<pair, startup, buffers>>

NextRuntime ==
    \/ \E popen_ok \in BOOLEAN : load(popen_ok)
    \/ predict
    \/ unload
    \/ \E process \in 1..MaxProcesses : julia_exit(process)

SpecRuntime == Init /\ [][NextRuntime]_vars

-----------------------------------------------------------------------------
(* The buffers of the Kalman and AR loops.  An observation is its number in *)
(* the order of generation; an estimate is the number of the observation   *)
(* it was computed for.  One pass of a loop is one step here: the loop's    *)
(* deques belong to its thread alone.                                       *)

deque_maxlen == 200
kalman_batch_size == 10
ar_batch_size == 5
window_size == 20

MaxKalmanIterations == 21
MaxMisses == 1
MaxArIterations == 41

\* The last n elements of a sequence (all of it when it is shorter).
Last(seq, n) == IF Len(seq) <= n THEN seq ELSE SubSeq(seq, Len(seq) - n + 1, Len(seq))

\* deque(maxlen=...).extend(data): elements fall out on the left.
extend(deque, data) == Last(deque \o data, deque_maxlen)

\* The batch generated in pass `iteration` (counted from 0).
Batch(iteration, batch_size) == [j \in 1..batch_size |-> iteration * batch_size + j]

\* Replies to the Kalman loop: RpcError, a response without output x, a
\* response with an x of one row per observation.
KalmanReplies ==
    { Reply(TRUE, <<>>, EmptyDict),
      Reply(FALSE, <<>>, EmptyDict),
      Reply(FALSE, <<Tensor("x", "FP64", <<kalman_batch_size, 2>>,
                            [j \in 1..(2 * kalman_batch_size) |-> j], <<>>, <<>>)>>,
            EmptyDict) }

\* One pass of run_kalman_stream: the batch goes into kalman_data, the call
\* is made, and if the results hold x its first column goes into
\* kalman_estimates.
run_kalman_stream(reply) ==
    LET data == Batch(buffers.iterations, kalman_batch_size)
        results == CallOutcome("streaming_kalman", reply).results
        hit == "x" \in DOMAIN results
    IN  /\ buffers.iterations < MaxKalmanIterations
        /\ hit \/ buffers.misses < MaxMisses
        /\ CallOutcome("streaming_kalman", reply).kind = "return"
        /\ buffers' =
              [buffers EXCEPT
                 !.kalman_data = extend(@, data),
                 !.kalman_estimates =
                     IF hit THEN extend(@, SubSeq(data, 1, results["x"].shape[1]))
                     ELSE @,
                 !.iterations = @ + 1,
                 !.misses = IF hit THEN @ ELSE @ + 1]
        /\ UNCHANGED <<model_states, running, pc, call, outcome, last_parsed, clock, codec>>
        /\ UNCHANGED <<pair, startup, runtime>>

NextKalman == \E reply \in KalmanReplies : run_kalman_stream(reply)

SpecKalman == Init /\ [][NextKalman]_vars

\* A variant that takes the window from the old end of the buffer.
window_data_oldest(ar_data) ==
    IF Len(ar_data) >= window_size THEN SubSeq(ar_data, 1, window_size) ELSE ar_data

\* The window of run_ar_stream: list(self.ar_data)[-window_size:] when the
\* buffer holds that many, else all of it.
window_data(ar_data) ==
    IF Len(ar_data) >= window_size
    THEN SubSeq(ar_data, Len(ar_data) - window_size + 1, Len(ar_data))
    ELSE ar_data

\* Replies to the AR loop: RpcError, or a response with the outputs α and β.
ArReplies ==
    { Reply(TRUE, <<>>, EmptyDict),
      Reply(FALSE, <<Tensor("alpha", "FP64", <<1>>, <<3>>, <<>>, <<>>),
                     Tensor("beta", "FP64", <<1>>, <<4>>, <<>>, <<>>)>>, EmptyDict) }

\* One pass of run_ar_stream: the batch goes into ar_data, the window is
\* taken and sent as y, and if the results hold α and β the pair of their
\* last values goes into ar_params.
run_ar_stream(reply) ==
    LET data == Batch(buffers.iterations, ar_batch_size)
        results == CallOutcome("online_ar_learning", reply).results
    IN  /\ buffers.iterations < MaxArIterations
        /\ buffers' =
              [buffers EXCEPT
                 !.ar_data = extend(@, data),
                 !.y = window_data(extend(buffers.ar_data, data)),
                 !.ar_params =
                     IF "alpha" \in DOMAIN results /\ "beta" \in DOMAIN results
                     THEN extend(@, << <<results["alpha"].values[Len(results["alpha"].values)],
                                         results["beta"].values[Len(results["beta"].values)]>> >>)
                     ELSE @,
                 !.iterations = @ + 1]
        /\ UNCHANGED <<model_states, running, pc, call, outcome, last_parsed, clock, codec>>
        /\ UNCHANGED <<pair, startup, runtime>>

NextAr == \E reply \in ArReplies : run_ar_stream(reply)

SpecAr == Init /\ [][NextAr]_vars

-----------------------------------------------------------------------------
(* Properties.                                                              *)

InFlight(s) == pc[s] = "awaiting" /\ Len(call[s]) = 1

\* The thread's last call got a ModelInferResponse (no RpcError).
GotResponse(s) ==
    /\ pc[s] \in {"returned", "crashed"}
    /\ ~outcome[s].reply.rpc_error

\* C1 (state continuity): a request built after N successful responses that
\* carried a state carries, as model_state, exactly the text of the Nth.
C1_RequestCarriesLastResponseState ==
    \A s \in Sessions :
        (InFlight(s) /\ Len(call[s][1].basis) = 1) =>
            LET sent == call[s][1].request.parameters IN
            /\ "model_state" \in DOMAIN sent
            /\ sent["model_state"] =
                   InferParameter("string_param", 0, call[s][1].basis[1])

\* C2 (no lost update): no two threads have requests in flight for the same
\* model that were built from the same snapshot of the store.
C2_NoSharedSnapshot ==
    \A s, t \in Sessions :
        (s # t /\ InFlight(s) /\ InFlight(t)
              /\ call[s][1].model_name = call[t][1].model_name) =>
            ~(call[s][1].fresh /\ call[t][1].fresh)

\* The store holds, per model, the decoded state of the last successfully
\* parsed response that carried one, and nothing for a model without one.
StoreReflectsLastParsed ==
    /\ DOMAIN model_states = DOMAIN last_parsed
    /\ \A m \in DOMAIN model_states :
          IsJson(last_parsed[m]) /\ model_states[m] = json_loads(last_parsed[m])

\* A step in which a call ends in RpcError or in an exception leaves the
\* store as it was.
FailedCallLeavesStore ==
    \A s \in Sessions :
        (/\ pc[s] = "awaiting"
         /\ pc'[s] # "awaiting"
         /\ (outcome'[s].kind = "raise" \/ outcome'[s].reply.rpc_error))
        => model_states' = model_states

\* C3 (a failed call never commits): the store always reflects the last
\* successfully parsed response, and a failing call does not change it.
C3_FailedCallNeverCommits ==
    [] StoreReflectsLastParsed /\ [][FailedCallLeavesStore]_vars

\* A call failed on a response that carried a state other than the stored one.
C3_Witness ==
    \E s \in Sessions :
        /\ pc[s] = "crashed"
        /\ "model_state" \in DOMAIN outcome[s].reply.parameters
        /\ outcome[s].model_name \in DOMAIN model_states
        /\ string_param(outcome[s].reply.parameters["model_state"])
              # last_parsed[outcome[s].model_name]

\* C4 (no commit after cancellation): once running is false the store is
\* never written.
C4_NoCommitAfterCancellation ==
    [][~running => model_states' = model_states]_vars

\* C5 (reserved key): a call whose parameters define model_state sends no
\* request.
C5_ReservedKeyRejected ==
    \A s \in Sessions :
        InFlight(s) => "model_state" \notin DOMAIN call[s][1].parameters

\* What a call can return after a response that it parsed.
SuccessResults ==
    UNION { { CallOutcome(m, r).results :
                r \in {q \in AllReplies :
                          ~q.rpc_error /\ CallOutcome(m, q).kind = "return"} } :
            m \in Models }

\* C6 (failure reported): what a call returns after a transport failure is
\* nothing a successful call returns.
C6_FailureDistinguishable ==
    \A s \in Sessions :
        (pc[s] = "returned" /\ outcome[s].reply.rpc_error) =>
            outcome[s].results \notin SuccessResults

\* The model_state a request for `model_name` built now would carry.
NextRequestState(model_name) ==
    RequestParameters(model_states, model_name, EmptyDict)["model_state"].s

\* C7 (verbatim replay): every string received as model_state is stored
\* whatever its content, and the next request carries exactly that string.
C7_StateReplayedVerbatim ==
    \A s \in Sessions :
        (/\ GotResponse(s)
         /\ ParseOutputs(outcome[s].reply.outputs, EmptyDict).ok
         /\ "model_state" \in DOMAIN outcome[s].reply.parameters
         /\ outcome[s].reply.parameters["model_state"].kind = "string_param")
        => /\ outcome[s].kind = "return"
           /\ outcome[s].model_name \in DOMAIN model_states
           /\ NextRequestState(outcome[s].model_name)
                 = outcome[s].reply.parameters["model_state"].s

\* Number of values a tensor supplies.
ValueCount(tensor) ==
    Len(tensor.fp64_contents) + Len(tensor.fp32_contents) + Len(tensor.int64_contents)

HasShapeMismatch(outputs) ==
    \E i \in 1..Len(outputs) : Product(outputs[i].shape) # ValueCount(outputs[i])

\* C8 (shape mismatch): a response with an output whose declared shape does
\* not multiply to its value count makes the call fail.
C8_ShapeMismatchFails ==
    \A s \in Sessions :
        (GotResponse(s) /\ HasShapeMismatch(outcome[s].reply.outputs)) =>
            outcome[s].kind = "raise"

\* C9 (unsupported parameter type): no request is sent with a parameter
\* that has no member set.
C9_NoUntypedParameterSent ==
    \A s \in Sessions :
        InFlight(s) =>
            \A k \in DOMAIN call[s][1].request.parameters :
                call[s][1].request.parameters[k].kind # "unset"

EnumeratedDatatypes == {"FP32", "FP64", "INT64", "BOOL", "BYTES"}

\* C10 (datatypes): a response with an output of a datatype outside the
\* enumerated set fails the call, and a call that returns has every output
\* of its response in its results.
C10_NoOutputDroppedByDatatype ==
    \A s \in Sessions :
        GotResponse(s) =>
            LET outputs == outcome[s].reply.outputs IN
            /\ (\E i \in 1..Len(outputs) :
                    outputs[i].datatype \notin EnumeratedDatatypes)
                  => outcome[s].kind = "raise"
            /\ outcome[s].kind = "return"
                  => \A i \in 1..Len(outputs) :
                        outputs[i].name \in DOMAIN outcome[s].results

\* Once the flag is cleared no loop starts an iteration: no thread that is
\* not already waiting for a reply sends a request.
NoIterationAfterCancel ==
    \A s \in Sessions :
        (~running /\ pc[s] # "awaiting") => pc'[s] # "awaiting"

\* Every stream loop has ended: it returned, or its thread is gone.
AllLoopsStopped == \A s \in Sessions : pc[s] \in {"stopped", "crashed", "exited"}

\* C11 (cancellation between iterations): once running is false a loop that
\* is not in a call sends nothing more, the next step of a loop at its
\* while-check stops it, and every stream loop eventually stops.
C11_CancelStopsLoops ==
    /\ [][NoIterationAfterCancel]_vars
    /\ [][\A s \in Sessions :
            (~running /\ pc[s] = "loop" /\ pc'[s] # "loop")
                => pc'[s] \in {"stopped", "exited"}]_vars
    /\ (~running ~> AllLoopsStopped)

\* A loop found the flag cleared at its while-check and returned.
C11_Witness == ~running /\ \E s \in Sessions : pc[s] = "stopped"

\* C12 (deadlines): no call blocks its thread forever: a thread waiting in
\* stub.ModelInfer eventually leaves the call.
C12_EveryCallTerminates ==
    \A s \in Sessions : (pc[s] = "awaiting") ~> (pc[s] # "awaiting")

\* C13 (state parameter from the store only): a request in flight carries
\* model_state only if the store held a state for its model when it was
\* built, and then the value is the encoding of that stored state.
C13_StateParameterOnlyFromStore ==
    \A s \in Sessions :
        (InFlight(s) /\ "model_state" \in DOMAIN call[s][1].request.parameters) =>
            /\ Len(call[s][1].basis) = 1
            /\ call[s][1].request.parameters["model_state"] =
                  InferParameter("string_param", 0,
                                 json_dumps(json_loads(call[s][1].basis[1])))

\* C14 (cold-start state emission): after a response with parseable outputs
\* that includes a model_state string, the call has returned and the store
\* holds an entry for the model, whatever the request carried.
C14_ResponseStateStored ==
    \A s \in Sessions :
        (/\ GotResponse(s)
         /\ ParseOutputs(outcome[s].reply.outputs, EmptyDict).ok
         /\ "model_state" \in DOMAIN outcome[s].reply.parameters
         /\ outcome[s].reply.parameters["model_state"].kind = "string_param")
        => /\ pc[s] = "returned"
           /\ outcome[s].model_name \in DOMAIN model_states

\* An entry appears only in the step in which a call for that model returns
\* on a response that carried a model_state.
EntryOnlyFromResponse ==
    \A m \in DOMAIN model_states' \ DOMAIN model_states :
        \E s \in Sessions :
            /\ pc[s] = "awaiting"
            /\ pc'[s] = "returned"
            /\ outcome'[s].model_name = m
            /\ ~outcome'[s].reply.rpc_error
            /\ "model_state" \in DOMAIN outcome'[s].reply.parameters

\* C15 (state lifecycle): the store starts without entries, an entry for a
\* model appears only with a successful response for that model that
\* carries a model_state, and no step removes an entry.
C15_StateLifecycle ==
    /\ [](DOMAIN model_states \subseteq DOMAIN last_parsed)
    /\ [][EntryOnlyFromResponse]_vars
    /\ [][DOMAIN model_states \subseteq DOMAIN model_states']_vars

\* A call for a model with a stored state ended in RpcError, and the entry
\* is still there.
C15_Witness ==
    \E s \in Sessions :
        /\ pc[s] = "returned"
        /\ outcome[s].reply.rpc_error
        /\ outcome[s].model_name \in DOMAIN model_states

\* A step in which a call returns on a response without model_state leaves
\* the store, and so the state the next request carries, as it was.
StatelessResponseLeavesStore ==
    \A s \in Sessions :
        (/\ pc[s] = "awaiting"
         /\ pc'[s] = "returned"
         /\ ~outcome'[s].reply.rpc_error
         /\ "model_state" \notin DOMAIN outcome'[s].reply.parameters)
        => /\ model_states' = model_states
           /\ \A m \in DOMAIN model_states :
                 RequestParameters(model_states', m, EmptyDict)
                     = RequestParameters(model_states, m, EmptyDict)

\* C16 (commit only with a state): a successful response without a
\* model_state parameter leaves the stored state unchanged, so the following
\* request carries the previous state.
C16_NoStateNoWrite == [][StatelessResponseLeavesStore]_vars

\* A call for a model with a stored state returned on a response without
\* model_state.
C16_Witness ==
    \E s \in Sessions :
        /\ pc[s] = "returned"
        /\ ~outcome[s].reply.rpc_error
        /\ "model_state" \notin DOMAIN outcome[s].reply.parameters
        /\ outcome[s].model_name \in DOMAIN model_states

\* C17 (boolean before integer): in every request in flight a bool value is
\* sent as bool_param, an int as int64_param and a str as string_param, each
\* with its value (the key model_state aside, which the store may overwrite).
C17_BoolBeforeInt ==
    \A s \in Sessions :
        InFlight(s) =>
            \A k \in DOMAIN call[s][1].parameters \ {"model_state"} :
                LET value == call[s][1].parameters[k]
                    sent == call[s][1].request.parameters[k]
                IN  /\ value.type = "bool" =>
                          sent = InferParameter("bool_param", value.n, "")
                    /\ value.type = "int" =>
                          sent = InferParameter("int64_param", value.n, "")
                    /\ value.type = "str" =>
                          sent = InferParameter("string_param", 0, value.s)

\* A request in flight whose parameters hold a bool, an int and a str.
C17_Witness ==
    \E s \in Sessions :
        /\ InFlight(s)
        /\ {call[s][1].parameters[k].type : k \in DOMAIN call[s][1].parameters}
              = {"bool", "int", "str"}

\* C18 (tensor round trip): every tensor of an enumerated datatype is
\* encoded by create_tensor, and decoding the encoding gives back its name,
\* datatype, declared shape and flat values.
C18_TensorRoundTrip ==
    /\ codec.stage = "encoded" => codec.encoded.ok
    /\ codec.stage = "decoded" =>
          /\ codec.decoded.ok
          /\ codec.name \in DOMAIN codec.decoded.results
          /\ codec.decoded.results[codec.name] = codec.data

\* C19 (shape matches value count): every tensor built by create_tensor, by
\* infer_simple and by _format_outputs holds as many scalars as its shape
\* multiplies to.
C19_ShapeMatchesValueCount ==
    /\ (codec.stage = "encoded" /\ codec.encoded.ok) =>
          Product(codec.encoded.tensor.shape) = ValueCount(codec.encoded.tensor)
    /\ codec.stage = "built" =>
          Product(codec.tensor.shape) = Len(codec.tensor.data)

\* C20 (unique correlation id): no two requests in flight, from different
\* threads, carry the same id.
C20_UniqueRequestId ==
    \A s, t \in Sessions :
        (s # t /\ InFlight(s) /\ InFlight(t)) =>
            call[s][1].request.id # call[t][1].request.id

\* C21 (one semantics, two transports): the same call against the same
\* server behaviour gives the same observable outcome on the gRPC client
\* and on the HTTP client.
C21_VariantsAgree == pair.op # "none" => pair.rpc = pair.http

\* A request is in flight exactly while its caller is inside the call.
OneRequestPerCall ==
    \A s \in Sessions : Len(call[s]) = IF pc[s] = "awaiting" THEN 1 ELSE 0

\* A caller that stays inside a call has not sent anything new.
NoResend ==
    \A s \in Sessions :
        (pc[s] = "awaiting" /\ pc'[s] = "awaiting") =>
            /\ Len(call'[s]) = 1
            /\ call'[s][1].request = call[s][1].request

\* C22 (no internal retry): a call of streaming_inference or of infer puts
\* one request on the transport; when it has ended, failed or not, nothing
\* is in flight until the caller calls again.
C22_NoInternalRetry == [] OneRequestPerCall /\ [][NoResend]_vars

\* A call ended on a transport failure and nothing is in flight.
C22_Witness ==
    \E s \in Sessions :
        /\ pc[s] \in {"returned", "crashed"}
        /\ outcome[s].reply.rpc_error
        /\ call[s] = NoCall

\* The steps of one session: wait for a batch and build the request
\* ("loop"), wait for the response ("awaiting"), parse, commit and hand the
\* results to the loop body ("returned"), then again; or end.
SessionSteps ==
    { <<"loop", "awaiting">>, <<"awaiting", "returned">>, <<"awaiting", "crashed">>,
      <<"returned", "loop">>, <<"loop", "stopped">>,
      <<"loop", "exited">>, <<"awaiting", "exited">>, <<"returned", "exited">> }

SessionCycle ==
    \A s \in Sessions :
        /\ pc'[s] # pc[s] => <<pc[s], pc'[s]>> \in SessionSteps
        /\ (pc[s] = "loop" /\ pc'[s] = "awaiting") => outcome[s] = NoOutcome
        /\ (pc[s] = "awaiting" /\ pc'[s] = "returned") =>
              outcome'[s].kind = "return"

\* The store changes only in the step in which a session gets its response.
OnlyAwaitingSessionCommits ==
    model_states' # model_states =>
        \E s \in Sessions : pc[s] = "awaiting" /\ pc'[s] = "returned"

\* C23 (session cycle): a session has at most one request in flight, sends
\* the next request only after the response to the previous one has been
\* parsed, committed and handed to the loop body, and a session that has
\* ended stays ended: it sends nothing and commits nothing.
C23_SessionCycle ==
    /\ [](\A s \in Sessions : Len(call[s]) <= 1 /\ (Len(call[s]) = 1 => pc[s] = "awaiting"))
    /\ [][SessionCycle]_vars
    /\ [][OnlyAwaitingSessionCommits]_vars

\* A loop has stopped after the store was written.
C23_Witness ==
    \E s \in Sessions : pc[s] = "stopped" /\ model_states # EmptyDict

\* A step changes the entry of no model other than the one whose call ends
\* in it.
OtherModelsUntouched ==
    \A s \in Sessions :
        (pc[s] = "awaiting" /\ pc'[s] # "awaiting") =>
            \A b \in Models \ {call[s][1].model_name} :
                /\ b \in DOMAIN model_states' <=> b \in DOMAIN model_states
                /\ b \in DOMAIN model_states => model_states'[b] = model_states[b]

\* A request in flight carries the state that was stored for its own model
\* when it was built, or none.
CarriesOwnState ==
    \A s \in Sessions :
        InFlight(s) =>
            IF Len(call[s][1].basis) = 1
            THEN /\ "model_state" \in DOMAIN call[s][1].request.parameters
                 /\ call[s][1].request.parameters["model_state"].s =
                       json_dumps(json_loads(call[s][1].basis[1]))
            ELSE "model_state" \notin DOMAIN call[s][1].request.parameters

\* C24 (per-model isolation): a call for one model never creates, changes
\* or removes the stored state of another model, and its request never
\* carries another model's state.
C24_PerModelIsolation == [][OtherModelsUntouched]_vars /\ [] CarriesOwnState

\* A request for one model is in flight while the store holds a different
\* state for the other model.
C24_Witness ==
    \E s \in Sessions :
        /\ InFlight(s)
        /\ DOMAIN model_states = Models
        /\ \A b \in Models \ {call[s][1].model_name} :
              model_states[b] # model_states[call[s][1].model_name]

\* Threads exist and requests are sent only once the server has answered
\* live and every model ready; the polls stay within their limits; after a
\* failed start-up no thread exists.
StartupSafe ==
    /\ (\E s \in Sessions : pc[s] # "unstarted") =>
          /\ startup.phase = "streaming"
          /\ startup.live
          /\ startup.ready = {StartupModels[k] : k \in 1..Len(StartupModels)}
    /\ startup.phase = "live" => startup.i < max_retries
    /\ startup.phase = "ready" => startup.i < ready_retries
    /\ startup.i <= max_retries
    /\ startup.phase = "failed" =>
          (~startup.live \/ startup.ready # {StartupModels[k] : k \in 1..Len(StartupModels)})

\* C25 (start-up gating): no thread is started and no request sent before
\* the server answered live and the three models ready, within 30 and 10
\* polls; and the start-up ends: with the streams started, or, when the
\* server does not become live or a model not ready, with the failure exit.
C25_StartupGating ==
    /\ [] StartupSafe
    /\ <>(startup.phase \in {"streaming", "failed"})

\* C26 (subprocess lifecycle): at most one subprocess started by the
\* instance is alive, and when unload has returned none is.
C26_SubprocessLifecycle ==
    /\ Cardinality(runtime.alive) <= 1
    /\ runtime.returned = "unload" => runtime.alive = {}

\* C27 (aligned Kalman buffers): the i-th entry of kalman_estimates is the
\* estimate for the i-th entry of kalman_data, and neither buffer holds
\* more than 200 entries.
C27_KalmanBuffersAligned ==
    /\ Len(buffers.kalman_data) <= deque_maxlen
    /\ Len(buffers.kalman_estimates) <= deque_maxlen
    /\ \A i \in 1..Len(buffers.kalman_estimates) :
          /\ i <= Len(buffers.kalman_data)
          /\ buffers.kalman_estimates[i] = buffers.kalman_data[i]

\* C28 (AR sliding window): the y sent in a pass is the last min(20, n)
\* observations of the buffer, in order, n being what the buffer holds (at
\* most 200) once the new batch is in; it has at most 20 values and ends
\* with the newest batch.
C28_ArSlidingWindow ==
    buffers.iterations > 0 =>
        LET n == Len(buffers.ar_data)
            m == IF n < window_size THEN n ELSE window_size
            newest == Batch(buffers.iterations - 1, ar_batch_size)
        IN  /\ n <= deque_maxlen
            /\ Len(buffers.y) = m
            /\ m <= 20
            /\ \A i \in 1..m : buffers.y[i] = buffers.ar_data[n - m + i]
            /\ \A j \in 1..ar_batch_size :
                  buffers.y[m - ar_batch_size + j] = newest[j]

\* The buffer is full, so old observations have fallen out, and a window of
\* 20 was sent.
C28_Witness ==
    /\ Len(buffers.ar_data) = deque_maxlen
    /\ buffers.ar_data[1] > 1
    /\ Len(buffers.y) = window_size

====
